---------------------------- MODULE Spec2Model ----------------------------
(***************************************************************************)
(* Verification model of the PII detection / redaction engine of           *)
(* app_pii_inspector.py: the checksum validators, the span resolver of     *)
(* find_spans and the substitution passes of replace_text.                 *)
(*                                                                         *)
(* A text is a sequence of text units; every unit is a one-character       *)
(* string, except Hangul syllables, which are written "U+XXXX".            *)
(***************************************************************************)
EXTENDS Integers, Sequences, FiniteSets, TLC

VARIABLES
    \* validators
    num,        \* the raw string handed to a validator
    called,     \* the validators that have returned
    luhnRes, brnRes, rrnRes, crnRes,
    \* find_spans
    spans,      \* the candidate list of find_spans
    filtered,   \* the resolved list
    last,       \* end offset of the last accepted span
    fpc,        \* position in find_spans
    ri,         \* index of the next rule to scan
    \* replace_text
    text,       \* the text given to replace_text
    enabled,    \* rules: the names of the enabled rules, in registration order
    window,     \* account_window
    useAcct,    \* use_account_near_keyword
    out,        \* the string being rewritten
    res,        \* the pieces collected by the account pass
    i,          \* scan index of the account pass
    masked,     \* the regions [s, e) of out that the account pass replaced
    rpc,        \* position in replace_text
    rj          \* index of the next rule to apply

vvars == <<num, called, luhnRes, brnRes, rrnRes, crnRes>>
fvars == <<spans, filtered, last, fpc, ri>>
rvars == <<text, enabled, window, useAcct, out, res, i, masked, rpc, rj>>
vars  == <<vvars, fvars, rvars>>

----------------------------------------------------------------------------
(* Text units and character classes of Python's re on str patterns.        *)

DigitChars == <<"0", "1", "2", "3", "4", "5", "6", "7", "8", "9">>

DigitSet == {DigitChars[k] : k \in 1..10}

IsDigit(c) == c \in DigitSet

\* int(d) for a digit character
DigitVal(c) == (CHOOSE k \in 1..10 : DigitChars[k] = c) - 1

LowerLetters == <<"a", "b", "c", "d", "e", "f", "g", "h", "i", "j", "k", "l", "m", "n",
                 "o", "p", "q", "r", "s", "t", "u", "v", "w", "x", "y", "z">>
UpperLetters == <<"A", "B", "C", "D", "E", "F", "G", "H", "I", "J", "K", "L", "M", "N",
                 "O", "P", "Q", "R", "S", "T", "U", "V", "W", "X", "Y", "Z">>

\* the Hangul syllables of the keywords and of the example text
Hangul == {"U+ACC4", "U+C88C", "U+C785", "U+AE08", "U+C1A1",
           "U+C5F0", "U+B77D", "U+CC98"}

LowerSet == {LowerLetters[k] : k \in 1..26}
UpperSet == {UpperLetters[k] : k \in 1..26}
WordSet  == DigitSet \cup LowerSet \cup UpperSet \cup Hangul \cup {"_"}

IsLower(c) == c \in LowerSet
IsUpper(c) == c \in UpperSet

\* [A-Za-z]
IsAsciiLetter(c) == IsLower(c) \/ IsUpper(c)

\* \w : letters of any script, digits and the underscore
IsWord(c) == c \in WordSet

\* \s
IsSpace(c) == c = " "

\* re.IGNORECASE: the lower-case form of a unit
LowerOf == [c \in UpperSet |-> LowerLetters[CHOOSE k \in 1..26 : UpperLetters[k] = c]]

Lower(c) == IF IsUpper(c) THEN LowerOf[c] ELSE c

\* s[-k:]
LastK(s, k) == IF Len(s) <= k THEN s ELSE SubSeq(s, Len(s) - k + 1, Len(s))

\* mask_char * n
Stars(n) == [k \in 1..n |-> "*"]

\* re.sub(r"\D", "", s)
StripNonDigits(s) == SelectSeq(s, IsDigit)

\* re.sub(r"\s", "", s)
StripSpace(s) == SelectSeq(s, LAMBDA c : ~IsSpace(c))

\* [int(d) for d in re.sub(r"\D", "", num)]
DigitsOf(s) == LET n == StripNonDigits(s) IN [k \in 1..Len(n) |-> DigitVal(n[k])]

----------------------------------------------------------------------------
(* Validators                                                              *)

MinCardDigits == 13

\* the for loop of luhn_check over reversed(ds): k runs from len(ds) down to 1
RECURSIVE LuhnLoop(_, _, _, _)
LuhnLoop(ds, k, s, alt) ==
    IF k = 0 THEN s
    ELSE LET d  == ds[k]
             v0 == IF alt THEN d * 2 ELSE d
             v  == IF alt /\ v0 > 9 THEN v0 - 9 ELSE v0
         IN  LuhnLoop(ds, k - 1, s + v, ~alt)

luhn_check_short12(s) ==
    LET ds == DigitsOf(s)
    IN  IF Len(ds) < MinCardDigits - 1 THEN FALSE
        ELSE LuhnLoop(ds, Len(ds), 0, FALSE) % 10 = 0

luhn_check(s) ==
    LET ds == DigitsOf(s)
    IN  IF Len(ds) < MinCardDigits THEN FALSE
        ELSE LuhnLoop(ds, Len(ds), 0, FALSE) % 10 = 0

BrnWeights == <<1, 3, 7, 1, 3, 7, 1, 3, 5>>

RECURSIVE WeightedSum(_, _, _)
WeightedSum(ds, w, k) ==
    IF k = 0 THEN 0 ELSE ds[k] * w[k] + WeightedSum(ds, w, k - 1)

brn_digit_carry_mod(ds) ==
    LET s0 == WeightedSum(ds, BrnWeights, 9)
        s  == s0 + ((ds[9] * 5) % 10)
    IN  (10 - (s % 10)) % 10

\* the check digit brn_check derives from the first 9 digits (ds has 10)
brn_digit(ds) ==
    LET s0 == WeightedSum(ds, BrnWeights, 9)
        s  == s0 + ((ds[9] * 5) \div 10)
    IN  (10 - (s % 10)) % 10

brn_check(s) ==
    LET ds == DigitsOf(s)
    IN  IF Len(ds) # 10 THEN FALSE
        ELSE brn_digit(ds) = ds[10]

\* int(n[a:b]) for a two-digit slice starting at 1-based position p
TwoDigits(n, p) == DigitVal(n[p]) * 10 + DigitVal(n[p + 1])

looks_like_rrn_ymd_shifted(s) ==
    LET n == StripNonDigits(s)
    IN  IF Len(n) # 13 THEN FALSE
        ELSE LET mm == TwoDigits(n, 2)
                 dd == TwoDigits(n, 4)
             IN  1 <= mm /\ mm <= 12 /\ 1 <= dd /\ dd <= 31

looks_like_rrn_ymd(s) ==
    LET n == StripNonDigits(s)
    IN  IF Len(n) # 13 THEN FALSE
        ELSE LET mm == TwoDigits(n, 3)
                 dd == TwoDigits(n, 5)
             IN  1 <= mm /\ mm <= 12 /\ 1 <= dd /\ dd <= 31

\* validator of the corporate-registration rule: lambda m: not looks_like_rrn_ymd(m.group(0))
crn_validator(s) == ~looks_like_rrn_ymd(s)

\* PAT_CRN, \b\d{6}[-\s]?\d{7}\b, matching all of s
RECURSIVE AllDigits(_, _, _)
AllDigits(s, a, b) == a > b \/ (IsDigit(s[a]) /\ AllDigits(s, a + 1, b))

IsCrnShape(s) ==
    \/ Len(s) = 13 /\ AllDigits(s, 1, 13)
    \/ Len(s) = 14 /\ AllDigits(s, 1, 6) /\ (s[7] = "-" \/ IsSpace(s[7]))
                   /\ AllDigits(s, 8, 14)

----------------------------------------------------------------------------
(* Validator inputs: the strings of the documentation and of the UI        *)
(* placeholder, each with a window of EditLen consecutive units            *)
(* overwritten by arbitrary digits.                                        *)

EditLen == 2

CardExample    == <<"4", "1", "1", "1", " ", "1", "1", "1", "1", " ", "1", "1", "1", "1", " ", "1", "1", "1", "1">>
CardExampleInc == <<"4", "1", "1", "1", " ", "1", "1", "1", "1", " ", "1", "1", "1", "1", " ", "1", "1", "1", "2">>
Card13         == <<"4", "2", "2", "2", "2", "2", "2", "2", "2", "2", "2", "2", "2">>
Card12         == <<"4", "1", "1", "1", " ", "1", "1", "1", "1", " ", "1", "1", "1", "1">>
BrnSpecDigits  == <<"1", "2", "0", "8", "1", "6", "2", "5", "1", "7">>
BrnExample     == <<"2", "2", "0", "8", "1", "6", "2", "5", "1", "7">>
BrnExampleRaw  == <<"2", "2", "0", "-", "8", "1", "-", "6", "2", "5", "1", "7">>
CrnDateShaped  == <<"9", "0", "0", "1", "0", "1", "-", "1", "2", "3", "4", "5", "6", "7">>
CrnNotDate     == <<"9", "9", "9", "9", "9", "9", "-", "1", "2", "3", "4", "5", "6", "7">>
CrnExample     == <<"1", "1", "0", "1", "1", "1", "-", "1", "2", "3", "4", "5", "6", "7">>
CrnDec31       == <<"9", "0", "1", "2", "3", "1", "-", "1", "2", "3", "4", "5", "6", "7">>

Bases == {CardExample, Card13, Card12, BrnSpecDigits, BrnExample, BrnExampleRaw,
          CrnDateShaped, CrnNotDate, CrnExample, CrnDec31}

\* b with the units p .. p+Len(d)-1 overwritten by d
Overwrite(b, p, d) ==
    [k \in 1..Len(b) |-> IF k >= p /\ k < p + Len(d) THEN d[k - p + 1] ELSE b[k]]

DigitStrings(n) == [1..n -> DigitSet]

Inputs ==
    {Overwrite(b, p, d) : b \in Bases, p \in 1..20, d \in DigitStrings(EditLen)}

InitValidators ==
    /\ num \in Inputs
    /\ called = {}
    /\ luhnRes = FALSE /\ brnRes = FALSE /\ rrnRes = FALSE /\ crnRes = FALSE

CallLuhn ==
    /\ called = {}
    /\ luhnRes' = luhn_check(num)
    /\ called' = {"luhn"}
    /\ UNCHANGED <<num, brnRes, rrnRes, crnRes>>
    /\ UNCHANGED <<fvars, rvars>>

CallBrn ==
    /\ called = {}
    /\ brnRes' = brn_check(num)
    /\ called' = {"brn"}
    /\ UNCHANGED <<num, luhnRes, rrnRes, crnRes>>
    /\ UNCHANGED <<fvars, rvars>>

CallRrnYmd ==
    /\ called = {}
    /\ rrnRes' = looks_like_rrn_ymd(num)
    /\ called' = {"rrn"}
    /\ UNCHANGED <<num, luhnRes, brnRes, crnRes>>
    /\ UNCHANGED <<fvars, rvars>>

CallCrnValidator ==
    /\ called = {}
    /\ crnRes' = crn_validator(num)
    /\ called' = {"crn"}
    /\ UNCHANGED <<num, luhnRes, brnRes, rrnRes>>
    /\ UNCHANGED <<fvars, rvars>>

----------------------------------------------------------------------------
(* find_spans: the scan loops append candidate spans, then the candidates  *)
(* are sorted by (start, end) and swept.  What the patterns match in the   *)
(* text is an input: every match is a span [start, end) with               *)
(* 0 <= start < end <= MaxPos.                                             *)

MaxPos   == 3      \* len(text)
NumRules == 2      \* len(rules)
MaxCands == 3      \* candidates appended by the scan loops

\* names of default_rules(), in registration order
RuleNames == <<"mobile", "rrn", "email", "card", "passport", "driver",
               "brn", "crn", "project">>
AcctLabel  == "account(keyword)"
CrnKwLabel == "crn(keyword)"

Span(n, s, e) == [rname |-> n, start |-> s, end |-> e]

\* registration index of the rule that produced sp, 0 for the keyword scans
RuleIndex(sp) ==
    IF \E r \in 1..Len(RuleNames) : RuleNames[r] = sp.rname
    THEN CHOOSE r \in 1..Len(RuleNames) : RuleNames[r] = sp.rname
    ELSE 0

\* (x.start, x.end) < (y.start, y.end), the order of Python tuples
KeyLess(x, y) == x.start < y.start \/ (x.start = y.start /\ x.end < y.end)

KeyLessStartOnly(x, y) == x.start < y.start

KeyLessOrEqual(x, y) == KeyLess(x, y) \/ (x.start = y.start /\ x.end = y.end)

\* the order spans.sort uses
SortBefore(x, y) == KeyLess(x, y)

\* list.sort is stable: sp goes after every element that does not sort after it
RECURSIVE InsertSorted(_, _)
InsertSorted(sorted, sp) ==
    IF sorted = <<>> THEN <<sp>>
    ELSE IF SortBefore(sp, Head(sorted)) THEN <<sp>> \o sorted
    ELSE <<Head(sorted)>> \o InsertSorted(Tail(sorted), sp)

RECURSIVE SortSpans(_)
SortSpans(l) ==
    IF l = <<>> THEN <<>>
    ELSE InsertSorted(SortSpans(SubSeq(l, 1, Len(l) - 1)), l[Len(l)])

AcceptsByEnd(sp, lst) == sp.end >= lst

\* the test of the sweep: if sp.start >= last
Accepts(sp, lst) == sp.start >= lst

\* the sweep over the sorted candidates: [filtered, last] after the loop
RECURSIVE Sweep(_, _, _)
Sweep(l, acc, lst) ==
    IF l = <<>> THEN [filtered |-> acc, last |-> lst]
    ELSE IF Accepts(Head(l), lst)
         THEN Sweep(Tail(l), Append(acc, Head(l)), Head(l).end)
         ELSE Sweep(Tail(l), acc, lst)

\* lines 169-177 on a candidate list
Resolved(l) == Sweep(SortSpans(l), <<>>, -1)

InitFindSpans ==
    /\ spans = <<>>
    /\ filtered = <<>>
    /\ last = -1
    /\ fpc = "rules"
    /\ ri = 1

\* end of the previous match of the rule being scanned: finditer yields
\* non-overlapping matches from left to right
ScanFrom ==
    IF spans # <<>> /\ spans[Len(spans)].rname = RuleNames[ri]
    THEN spans[Len(spans)].end ELSE 0

\* for m in r.pattern.finditer(text): a match that passes the validator
RuleMatch ==
    /\ fpc = "rules"
    /\ Len(spans) < MaxCands
    /\ \E s \in ScanFrom..(MaxPos - 1) : \E e \in (s + 1)..MaxPos :
           spans' = Append(spans, Span(RuleNames[ri], s, e))
    /\ UNCHANGED <<filtered, last, fpc, ri>>
    /\ UNCHANGED <<vvars, rvars>>

\* for r in rules: the next rule, or the end of the loop
NextRule ==
    /\ fpc = "rules"
    /\ IF ri < NumRules
       THEN ri' = ri + 1 /\ fpc' = fpc
       ELSE ri' = ri /\ fpc' = "acct"
    /\ UNCHANGED <<spans, filtered, last>>
    /\ UNCHANGED <<vvars, rvars>>

\* a match of PAT_ACCT_NUM in the window of a keyword anchor; a call with
\* use_account_near_keyword = False is a scan that appends nothing
AcctMatch ==
    /\ fpc = "acct"
    /\ Len(spans) < MaxCands
    /\ \E s \in 0..(MaxPos - 1) : \E e \in (s + 1)..MaxPos :
           spans' = Append(spans, Span(AcctLabel, s, e))
    /\ UNCHANGED <<filtered, last, fpc, ri>>
    /\ UNCHANGED <<vvars, rvars>>

AcctDone ==
    /\ fpc = "acct"
    /\ fpc' = "crn"
    /\ UNCHANGED <<spans, filtered, last, ri>>
    /\ UNCHANGED <<vvars, rvars>>

\* a match of PAT_CRN after a KEYWORD_CRN anchor that does not look like a
\* date; a call with use_crn_keyword = False is a scan that appends nothing
CrnKwMatch ==
    /\ fpc = "crn"
    /\ Len(spans) < MaxCands
    /\ \E s \in 0..(MaxPos - 1) : \E e \in (s + 1)..MaxPos :
           spans' = Append(spans, Span(CrnKwLabel, s, e))
    /\ UNCHANGED <<filtered, last, fpc, ri>>
    /\ UNCHANGED <<vvars, rvars>>

\* the scan is over: sort, sweep, return filtered
Resolve ==
    /\ fpc = "crn"
    /\ spans' = SortSpans(spans)
    /\ filtered' = Resolved(spans).filtered
    /\ last' = Resolved(spans).last
    /\ fpc' = "done"
    /\ UNCHANGED ri
    /\ UNCHANGED <<vvars, rvars>>

----------------------------------------------------------------------------
(* Pattern matching.  Offsets are 0-based as in Python; a pattern is       *)
(* matched against t[0:endpos], so endpos cuts the string the way the      *)
(* endpos argument and a slice do, while a search that starts at pos > 0   *)
(* still sees the unit before pos.                                         *)

\* the unit at offset p of t[0:endpos], "" outside the string
At(t, p, endpos) == IF p >= 0 /\ p < endpos THEN t[p + 1] ELSE ""

\* \b at offset p
Boundary(t, p, endpos) ==
    IsWord(At(t, p - 1, endpos)) # IsWord(At(t, p, endpos))

\* s[a:b]
Slice(s, a, b) == SubSeq(s, a + 1, b)

IsSep(c) == c = "-" \/ IsSpace(c)

\* [A-Za-z0-9._%+-]
IsEmailLocal(c) == IsAsciiLetter(c) \/ IsDigit(c) \/ c \in {".", "_", "%", "+", "-"}

\* [A-Za-z0-9.-]
IsEmailDomain(c) == IsAsciiLetter(c) \/ IsDigit(c) \/ c \in {".", "-"}

InClass(cls, c) ==
    CASE cls = "digit"  -> IsDigit(c)
      [] cls = "local"  -> IsEmailLocal(c)
      [] cls = "domain" -> IsEmailDomain(c)
      [] cls = "letter" -> IsAsciiLetter(c)

\* length of the longest run of units of class cls from offset p
RECURSIVE Run(_, _, _, _)
Run(cls, t, p, endpos) ==
    IF p < endpos /\ InClass(cls, At(t, p, endpos))
    THEN 1 + Run(cls, t, p + 1, endpos) ELSE 0

\* PAT_ACCT_NUM = \b\d{10,14}\b|\b\d{2,6}-\d{2,6}-\d{2,6}\b at offset p:
\* the end of the match, -1 if none
AcctNumEnd(t, p, endpos) ==
    LET l1 == Run("digit", t, p, endpos)
        p2 == p + l1 + 1
        l2 == Run("digit", t, p2, endpos)
        p3 == p2 + l2 + 1
        l3 == Run("digit", t, p3, endpos)
    IN  IF ~Boundary(t, p, endpos) \/ l1 = 0 THEN -1
        ELSE IF l1 >= 10 /\ l1 <= 14 /\ ~IsWord(At(t, p + l1, endpos)) THEN p + l1
        ELSE IF /\ l1 >= 2 /\ l1 <= 6 /\ At(t, p + l1, endpos) = "-"
                /\ l2 >= 2 /\ l2 <= 6 /\ At(t, p2 + l2, endpos) = "-"
                /\ l3 >= 2 /\ l3 <= 6 /\ ~IsWord(At(t, p3 + l3, endpos))
             THEN p3 + l3
        ELSE -1

\* [-\s]?\d{4}\b at offset q, the tail of PAT_MOBILE
MobileTailEnd(t, q, endpos) ==
    LET q1 == IF IsSep(At(t, q, endpos)) THEN q + 1 ELSE q
    IN  IF Run("digit", t, q1, endpos) = 4 /\ ~IsWord(At(t, q1 + 4, endpos))
        THEN q1 + 4 ELSE -1

\* PAT_MOBILE = \b(01[016789])[-\s]?\d{3,4}[-\s]?\d{4}\b at offset p
MobileEnd(t, p, endpos) ==
    LET q  == p + 3
        q1 == IF IsSep(At(t, q, endpos)) THEN q + 1 ELSE q
        l  == Run("digit", t, q1, endpos)
    IN  IF \/ ~Boundary(t, p, endpos)
           \/ At(t, p, endpos) # "0" \/ At(t, p + 1, endpos) # "1"
           \/ At(t, p + 2, endpos) \notin {"0", "1", "6", "7", "8", "9"}
        THEN -1
        ELSE IF l >= 4 /\ MobileTailEnd(t, q1 + 4, endpos) # -1
             THEN MobileTailEnd(t, q1 + 4, endpos)
        ELSE IF l >= 3 THEN MobileTailEnd(t, q1 + 3, endpos)
        ELSE -1

\* the domain of PAT_EMAIL, [A-Za-z0-9.-]+\.[A-Za-z]{2,}\b, from offset d0
\* with the greedy first part cut back to k units: the end, -1 if none
RECURSIVE EmailDomainEnd(_, _, _, _)
EmailDomainEnd(t, d0, k, endpos) ==
    IF k < 1 THEN -1
    ELSE LET m == Run("letter", t, d0 + k + 1, endpos)
         IN  IF /\ At(t, d0 + k, endpos) = "."
                /\ m >= 2
                /\ ~IsWord(At(t, d0 + k + 1 + m, endpos))
             THEN d0 + k + 1 + m
             ELSE EmailDomainEnd(t, d0, k - 1, endpos)

\* PAT_EMAIL = \b([A-Za-z0-9._%+-]+)@([A-Za-z0-9.-]+\.[A-Za-z]{2,})\b
EmailEnd(t, p, endpos) ==
    LET l  == Run("local", t, p, endpos)
        d0 == p + l + 1
    IN  IF ~Boundary(t, p, endpos) \/ l = 0 \/ At(t, p + l, endpos) # "@" THEN -1
        ELSE EmailDomainEnd(t, d0, Run("domain", t, d0, endpos), endpos)

\* the alternatives of KEYWORD_ACCT, in order; the pattern is re.IGNORECASE
Keywords == <<<<"U+ACC4", "U+C88C">>, <<"a", "c", "c", "o", "u", "n", "t">>, <<"U+C785", "U+AE08">>, <<"U+C1A1", "U+AE08">>, <<"b", "a", "n", "k">>>>

KeywordAt(kw, t, p, endpos) ==
    /\ p + Len(kw) <= endpos
    /\ \A k \in 1..Len(kw) : Lower(At(t, p + k - 1, endpos)) = kw[k]

\* the alternatives are tried in order, from number n on
RECURSIVE KeywordEndFrom(_, _, _, _)
KeywordEndFrom(n, t, p, endpos) ==
    IF n > Len(Keywords) THEN -1
    ELSE IF KeywordAt(Keywords[n], t, p, endpos) THEN p + Len(Keywords[n])
    ELSE KeywordEndFrom(n + 1, t, p, endpos)

KeywordEnd(t, p, endpos) == KeywordEndFrom(1, t, p, endpos)

MatchEnd(pat, t, p, endpos) ==
    CASE pat = "PAT_MOBILE"   -> MobileEnd(t, p, endpos)
      [] pat = "PAT_EMAIL"    -> EmailEnd(t, p, endpos)
      [] pat = "PAT_ACCT_NUM" -> AcctNumEnd(t, p, endpos)
      [] pat = "KEYWORD_ACCT" -> KeywordEnd(t, p, endpos)

\* pattern.search(t, pos, endpos): <<start, end>> of the leftmost match,
\* <<>> if there is none
RECURSIVE Search(_, _, _, _)
Search(pat, t, pos, endpos) ==
    IF pos >= endpos THEN <<>>
    ELSE LET e == MatchEnd(pat, t, pos, endpos)
         IN  IF e # -1 THEN <<pos, e>> ELSE Search(pat, t, pos + 1, endpos)

\* pattern.finditer(t, pos, endpos): the matches, left to right, each
\* search starting where the previous match ended
RECURSIVE FindIter(_, _, _, _)
FindIter(pat, t, pos, endpos) ==
    LET m == Search(pat, t, pos, endpos)
    IN  IF m = <<>> THEN <<>>
        ELSE <<m>> \o FindIter(pat, t, m[2], endpos)

----------------------------------------------------------------------------
(* Mask renderers                                                          *)

\* keep_tail_mask(s, keep)
keep_tail_mask(s, keep) ==
    LET s2 == StripSpace(s)
    IN  IF Len(s2) > keep THEN Stars(Len(s2) - keep) \o LastK(s2, keep) ELSE s

\* re.sub(r'\\D', '', s) as written inside the f-string of the account
\* pass: the pattern is a backslash followed by D, not the class \D
RECURSIVE StripBackslashD(_)
StripBackslashD(s) ==
    IF s = <<>> THEN <<>>
    ELSE IF Len(s) >= 2 /\ s[1] = "\\" /\ s[2] = "D"
         THEN StripBackslashD(SubSeq(s, 3, Len(s)))
    ELSE <<s[1]>> \o StripBackslashD(Tail(s))

TelPrefix   == <<"T", "E", "L", "[", "*", "*", "*", "-", "*", "*", "*", "*", "-", "*", "*">>
EmailPrefix == <<"E", "M", "A", "I", "L", "[">>
AcctPrefix  == <<"A", "C", "C", "T", "[">>

\* mask_mobile on the matched text g0
mask_mobile(g0) == TelPrefix \o LastK(StripNonDigits(g0), 2) \o <<"]">>

mask_email_three_stars(local, domain) ==
    EmailPrefix \o <<local[1], "*", "*", "*", "@">> \o domain \o <<"]">>

\* mask_email on group 1 and group 2 of the match
mask_email(local, domain) ==
    LET masked_local == IF Len(local) > 1
                        THEN <<local[1]>> \o Stars(Len(local) - 1)
                        ELSE <<"*">>
    IN  EmailPrefix \o masked_local \o <<"@">> \o domain \o <<"]">>

\* the lambda of the account pass
mask_acct(g0) == AcctPrefix \o keep_tail_mask(StripBackslashD(g0), 4) \o <<"]">>

\* what pattern.sub puts in place of the match t[s:e]
Replacement(pat, t, s, e) ==
    LET g0 == Slice(t, s, e)
        at == s + Run("local", t, s, e)
    IN  CASE pat = "PAT_MOBILE"   -> mask_mobile(g0)
          [] pat = "PAT_EMAIL"    -> mask_email(Slice(t, s, at), Slice(t, at + 1, e))
          [] pat = "PAT_ACCT_NUM" -> mask_acct(g0)

\* pattern.sub(repl, t), from offset p on
RECURSIVE SubFrom(_, _, _)
SubFrom(pat, t, p) ==
    IF p >= Len(t) THEN <<>>
    ELSE LET e == MatchEnd(pat, t, p, Len(t))
         IN  IF e # -1 THEN Replacement(pat, t, p, e) \o SubFrom(pat, t, e)
             ELSE <<t[p + 1]>> \o SubFrom(pat, t, p + 1)

Sub(pat, t) == SubFrom(pat, t, 0)

\* the pattern of a rule of default_rules(); neither modelled rule has a validator
PatternOf(rname) ==
    CASE rname = "mobile" -> "PAT_MOBILE"
      [] rname = "email"  -> "PAT_EMAIL"


----------------------------------------------------------------------------
(* find_spans on a text, for the rules whose patterns are modelled and     *)
(* with use_crn_keyword = False, its default                               *)

Min(a, b) == IF a <= b THEN a ELSE b

\* Span(label, s, e) for every match <<s, e>> of ms
SpansOf(label, ms) == [k \in 1..Len(ms) |-> Span(label, ms[k][1], ms[k][2])]

\* the candidates of the loop over rules, from rule number k on
RECURSIVE RuleCands(_, _, _)
RuleCands(t, rules, k) ==
    IF k > Len(rules) THEN <<>>
    ELSE SpansOf(rules[k], FindIter(PatternOf(rules[k]), t, 0, Len(t)))
         \o RuleCands(t, rules, k + 1)

\* the candidates of the keyword-proximity scan for the anchors kms
RECURSIVE AcctCands(_, _, _)
AcctCands(t, kms, w) ==
    IF kms = <<>> THEN <<>>
    ELSE LET ke   == kms[1][2]
             wend == Min(Len(t), ke + w)
         IN  SpansOf(AcctLabel, FindIter("PAT_ACCT_NUM", t, ke, wend))
             \o AcctCands(t, Tail(kms), w)

find_spans(t, rules, use_account_near_keyword, account_window) ==
    LET cands == RuleCands(t, rules, 1) \o
                 (IF use_account_near_keyword
                  THEN AcctCands(t, FindIter("KEYWORD_ACCT", t, 0, Len(t)),
                                 account_window)
                  ELSE <<>>)
    IN  Resolved(cands).filtered

----------------------------------------------------------------------------
(* replace_text                                                            *)

SearchSpan    == 800   \* KEYWORD_ACCT.search(out, i, min(len(out), i + 800))
DefaultWindow == 50    \* account_window

MaxTokens == 3
BoundaryWindow == 10

AcctTokens == {<<"b", "a", "n", "k", " ">>, <<"U+ACC4", "U+C88C", " ">>, <<" ">>, <<"1", "2", "3", "4", "5", "6", "7", "8", "9", "0">>, <<"1">>, <<"1", "2", "-", "3", "4", "-", "5", "6">>}

RuleTokens == {<<"U+C5F0", "U+B77D", "U+CC98", " ">>, <<"0", "1", "0", "-", "1", "2", "3", "4", "-", "5", "6", "7", "8">>, <<",", " ", "e", "m", "a", "i", "l", ":", " ">>, <<"a", "@", "b", ".", "c", "o", "m">>, <<"a", "b", "@", "b", ".", "c", "o", "m">>, <<"b", "a", "n", "k", " ">>}

\* the strings made of at most n of the tokens
RECURSIVE Concats(_, _)
Concats(tokens, n) ==
    IF n = 0 THEN {<<>>}
    ELSE Concats(tokens, n - 1) \cup
         {x \o y : x \in Concats(tokens, n - 1), y \in tokens}

EndToEndText == <<"U+C5F0", "U+B77D", "U+CC98", " ">> \o <<"0", "1", "0", "-", "1", "2", "3", "4", "-", "5", "6", "7", "8">> \o <<",", " ", "e", "m", "a", "i", "l", ":", " ">> \o <<"a", "@", "b", ".", "c", "o", "m">>

Windows == {0, BoundaryWindow, BoundaryWindow + 1, DefaultWindow}

\* the rule lists the UI can pass: default_rules() filtered by the selection
EnabledLists == {<<>>, <<"mobile">>, <<"email">>, <<"mobile", "email">>}

InitReplace ==
    /\ \/ /\ text \in Concats(AcctTokens, MaxTokens)
          /\ enabled = <<>>
          /\ window \in Windows
          /\ useAcct = TRUE
       \/ /\ text \in Concats(RuleTokens, MaxTokens) \cup {EndToEndText}
          /\ enabled \in EnabledLists
          /\ window = DefaultWindow
          /\ useAcct \in BOOLEAN
    /\ out = text
    /\ res = <<>>
    /\ i = 0
    /\ masked = {}
    /\ rpc = "rules"
    /\ rj = 1

\* "".join(res)
RECURSIVE Join(_)
Join(pieces) == IF pieces = <<>> THEN <<>> ELSE Head(pieces) \o Join(Tail(pieces))

\* one pass of the loop over rules: out = r.pattern.sub(repl, out)
RulePass ==
    /\ rpc = "rules"
    /\ rj <= Len(enabled)
    /\ out' = Sub(PatternOf(enabled[rj]), out)
    /\ rj' = rj + 1
    /\ UNCHANGED <<text, enabled, window, useAcct, res, i, masked, rpc>>
    /\ UNCHANGED <<vvars, fvars>>

\* the loop over rules is over: return out, or start the account pass
EnterAcct ==
    /\ rpc = "rules"
    /\ rj > Len(enabled)
    /\ IF useAcct
       THEN res' = <<>> /\ i' = 0 /\ rpc' = "acct"
       ELSE res' = res /\ i' = i /\ rpc' = "done"
    /\ UNCHANGED <<text, enabled, window, useAcct, out, masked, rj>>
    /\ UNCHANGED <<vvars, fvars>>

\* km of the current iteration, <<>> for None
AcctKm == Search("KEYWORD_ACCT", out, i, Min(Len(out), i + SearchSpan))

\* wend of an iteration whose anchor ends at ke, taken from the scan index
\* instead of the anchor's end
WendFromIndex(ke) == Min(Len(out), i + window)

\* wend = min(len(out), ke + account_window)
Wend(ke) == Min(Len(out), ke + window)

\* an iteration of the while loop that finds a keyword anchor
AcctIter ==
    /\ rpc = "acct"
    /\ i < Len(out)
    /\ AcctKm # <<>>
    /\ LET ks   == AcctKm[1]
           ke   == AcctKm[2]
           wend == Wend(ke)
           win  == Slice(out, ke, wend)
           ms   == FindIter("PAT_ACCT_NUM", win, 0, Len(win))
       IN  /\ res' = res \o <<Slice(out, i, ks), Slice(out, ks, ke),
                              Sub("PAT_ACCT_NUM", win)>>
           /\ i' = wend
           /\ masked' = masked \cup
                  {<<ke + ms[k][1], ke + ms[k][2]>> : k \in 1..Len(ms)}
    /\ UNCHANGED <<text, enabled, window, useAcct, out, rpc, rj>>
    /\ UNCHANGED <<vvars, fvars>>

\* an iteration that finds no anchor: res.append(out[i:]); break; join; return
AcctBreak ==
    /\ rpc = "acct"
    /\ i < Len(out)
    /\ AcctKm = <<>>
    /\ res' = Append(res, Slice(out, i, Len(out)))
    /\ out' = Join(res')
    /\ rpc' = "done"
    /\ UNCHANGED <<text, enabled, window, useAcct, i, masked, rj>>
    /\ UNCHANGED <<vvars, fvars>>

\* the loop condition fails: join; return
AcctExit ==
    /\ rpc = "acct"
    /\ i >= Len(out)
    /\ out' = IF res # <<>> THEN Join(res) ELSE out
    /\ rpc' = "done"
    /\ UNCHANGED <<text, enabled, window, useAcct, res, i, masked, rj>>
    /\ UNCHANGED <<vvars, fvars>>


IdleValidators ==
    /\ num = <<>> /\ called = {}
    /\ luhnRes = FALSE /\ brnRes = FALSE /\ rrnRes = FALSE /\ crnRes = FALSE

IdleFindSpans ==
    /\ spans = <<>> /\ filtered = <<>> /\ last = -1 /\ fpc = "idle" /\ ri = 1

IdleReplace ==
    /\ text = <<>> /\ enabled = <<>> /\ window = 0 /\ useAcct = FALSE
    /\ out = <<>> /\ res = <<>> /\ i = 0 /\ masked = {} /\ rpc = "idle" /\ rj = 1

NextFindSpans ==
    \/ RuleMatch
    \/ NextRule
    \/ AcctMatch
    \/ AcctDone
    \/ CrnKwMatch
    \/ Resolve

InitFindSpansOnly == InitFindSpans /\ IdleValidators /\ IdleReplace

SpecFindSpans == InitFindSpansOnly /\ [][NextFindSpans]_vars

NextValidators ==
    \/ CallLuhn
    \/ CallBrn
    \/ CallRrnYmd
    \/ CallCrnValidator

NextReplace ==
    \/ RulePass
    \/ EnterAcct
    \/ AcctIter
    \/ AcctBreak
    \/ AcctExit

InitReplaceOnly == InitReplace /\ IdleValidators /\ IdleFindSpans

SpecReplace == InitReplaceOnly /\ [][NextReplace]_vars

\* the conditions under which control is at "out = r.pattern.sub(repl, out)"
\* and at an iteration that finds an anchor; each of the two steps changes
\* rj or i, so the condition is ENABLED <<step>>_vars
RulePassEnabled == rpc = "rules" /\ rj <= Len(enabled)

AcctIterEnabled == rpc = "acct" /\ i < Len(out) /\ AcctKm # <<>>

\* WF_vars(RulePass) and WF_vars(AcctIter), with ENABLED written out
FairRulePass == []<>(~RulePassEnabled) \/ []<><<RulePass>>_vars

FairAcctIter == []<>(~AcctIterEnabled) \/ []<><<AcctIter>>_vars

\* the longest input, in tokens, of the calls whose whole behaviour is
\* followed to its end
MaxLiveTokens == 2

\* the calls of replace_text of InitReplace, on the shorter inputs
InitReplaceLive ==
    /\ \/ /\ text \in Concats(AcctTokens, MaxLiveTokens)
          /\ enabled = <<>>
          /\ window \in Windows
          /\ useAcct = TRUE
       \/ /\ text \in Concats(RuleTokens, MaxLiveTokens) \cup {EndToEndText}
          /\ enabled \in EnabledLists
          /\ window = DefaultWindow
          /\ useAcct \in BOOLEAN
    /\ out = text
    /\ res = <<>>
    /\ i = 0
    /\ masked = {}
    /\ rpc = "rules"
    /\ rj = 1

InitReplaceLiveOnly == InitReplaceLive /\ IdleValidators /\ IdleFindSpans

\* replace_text is straight-line sequential code run by one thread: a call
\* that has a step to take takes it
SpecReplaceLive ==
    /\ InitReplaceLiveOnly
    /\ [][NextReplace]_vars
    /\ FairRulePass
    /\ WF_vars(EnterAcct)
    /\ FairAcctIter
    /\ WF_vars(AcctBreak)
    /\ WF_vars(AcctExit)

InitValidatorsOnly == InitValidators /\ IdleFindSpans /\ IdleReplace

SpecValidators == InitValidatorsOnly /\ [][NextValidators]_vars

----------------------------------------------------------------------------
(* Properties of the span resolver                                         *)

Overlap(a, b) == a.start < b.end /\ b.start < a.end

InFiltered(sp) == \E k \in 1..Len(filtered) : filtered[k] = sp

Cands == {spans[k] : k \in 1..Len(spans)}

\* every order in which the candidates of l can be appended
Orderings(l) ==
    {[k \in 1..Len(l) |-> l[p[k]]] : p \in Permutations(1..Len(l))}

Positions(l) == [k \in 1..Len(l) |-> <<l[k].start, l[k].end>>]

\* C1: the list find_spans returns is sorted ascending by start, adjacent
\* spans satisfy span[i].end <= span[i+1].start, and every returned span
\* is one of the candidates, unchanged.
C1_ResolvedSpanSet ==
    fpc = "done" =>
        /\ \A k \in 1..(Len(filtered) - 1) :
               /\ filtered[k].start <= filtered[k + 1].start
               /\ filtered[k].end <= filtered[k + 1].start
        /\ \A k \in 1..Len(filtered) : filtered[k] \in Cands
        /\ Len(filtered) <= Len(spans)

C1_Witness ==
    /\ fpc = "done" /\ Len(spans) = 3 /\ Len(filtered) = 2
    /\ \E a \in Cands : ~InFiltered(a)

\* C2 as stated: of two overlapping candidates, the one with the larger
\* (start, end) key is never the one in the output.
C2_SmallerKeyRetained ==
    fpc = "done" =>
        \A a \in Cands : \A b \in Cands :
            (Overlap(a, b) /\ KeyLess(a, b)) => ~InFiltered(b)

\* C2 amended: of two overlapping candidates at most one is in the output,
\* and the one with the larger key is in the output only when the one with
\* the smaller key was dropped because it overlaps a retained span of still
\* smaller key.
C2_Amended ==
    fpc = "done" =>
        \A a \in Cands : \A b \in Cands :
            (Overlap(a, b) /\ a # b) =>
                /\ ~(InFiltered(a) /\ InFiltered(b))
                /\ (KeyLess(a, b) /\ InFiltered(b)) =>
                       \E c \in Cands :
                           InFiltered(c) /\ KeyLess(c, a) /\ Overlap(c, a)

C2_Witness ==
    /\ fpc = "done"
    /\ \E a \in Cands : \E b \in Cands :
           /\ Overlap(a, b) /\ KeyLess(a, b) /\ InFiltered(b)
           /\ \E c \in Cands : InFiltered(c) /\ Overlap(c, a) /\ ~Overlap(c, b)

\* C3 as stated: of two candidates of different rules that start at the
\* same position, with equal or different ends, the one of the rule
\* registered later does not survive.
C3_EarlierRuleSurvives ==
    fpc = "done" =>
        \A a \in Cands : \A b \in Cands :
            (/\ RuleIndex(a) >= 1 /\ RuleIndex(a) < RuleIndex(b)
             /\ a.start = b.start) => ~InFiltered(b)

\* C3 amended: of two candidates of different rules that start at the same
\* position, the one of the later-registered rule does not survive when the
\* ends are equal, and the one with the larger end does not survive when
\* the ends differ, whichever rule produced it.
C3_Amended ==
    fpc = "done" =>
        \A a \in Cands : \A b \in Cands :
            (/\ RuleIndex(a) >= 1 /\ RuleIndex(b) >= 1
             /\ RuleIndex(a) # RuleIndex(b) /\ a.start = b.start) =>
                /\ (a.end = b.end /\ RuleIndex(a) < RuleIndex(b)) => ~InFiltered(b)
                /\ (a.end < b.end) => ~InFiltered(b)

C3_Witness ==
    /\ fpc = "done"
    /\ \E a \in Cands : \E b \in Cands :
           /\ RuleIndex(a) >= 1 /\ RuleIndex(a) < RuleIndex(b)
           /\ a.start = b.start /\ a.end = b.end /\ InFiltered(a)

\* C10 as stated: the resolved list, labels and positions, is the same for
\* every order in which the candidates are appended before the sort.
C10_OrderIndependent ==
    fpc = "done" =>
        \A q \in Orderings(spans) : Resolved(q).filtered = filtered

\* C10 amended: the positions of the resolved list are the same for every
\* order of appending; the labels are the same too when no two candidates
\* with different labels have the same (start, end).
C10_Amended ==
    fpc = "done" =>
        LET distinctKeys ==
                \A a \in Cands : \A b \in Cands :
                    (a.start = b.start /\ a.end = b.end) => a.rname = b.rname
        IN  \A q \in Orderings(spans) :
                IF distinctKeys
                THEN Resolved(q).filtered = filtered
                ELSE Positions(Resolved(q).filtered) = Positions(filtered)

C10_Witness ==
    /\ fpc = "done" /\ Len(spans) = 3 /\ filtered # <<>>
    /\ \E a \in Cands : \E b \in Cands :
           a.start = b.start /\ a.end = b.end /\ a.rname # b.rname
    /\ \E q \in Orderings(spans) : Resolved(q).filtered # filtered

----------------------------------------------------------------------------
(* Properties of the validators                                            *)

\* position of the final digit of s (s holds a digit)
FinalDigitPos(s) == CHOOSE k \in 1..Len(s) :
    IsDigit(s[k]) /\ \A j \in (k + 1)..Len(s) : ~IsDigit(s[j])

ReplaceFinalDigit(s, d) == [s EXCEPT ![FinalDigitPos(s)] = d]

\* C5 as stated: brn_check accepts the digit string 1208162517, the check
\* digit it derives being the supplied 10th digit 7.
C5_AcceptsSpecDigits ==
    (called = {"brn"} /\ num = BrnSpecDigits) =>
        (brnRes /\ brn_digit(DigitsOf(num)) = 7)

\* C5 amended: brn_check rejects 1208162517, the check digit it derives from
\* the first 9 digits being 8 and not the supplied 7; it accepts 2208162517,
\* the digits of the example 220-81-62517, for which it derives 7.
C5_Amended ==
    called = {"brn"} =>
        /\ num = BrnSpecDigits =>
               (~brnRes /\ brn_digit(DigitsOf(num)) = 8 /\ DigitsOf(num)[10] = 7)
        /\ num \in {BrnExample, BrnExampleRaw} =>
               (brnRes /\ brn_digit(DigitsOf(num)) = 7 /\ DigitsOf(num)[10] = 7)

C5_Witness == called = {"brn"} /\ num = BrnSpecDigits /\ ~brnRes

\* C8: luhn_check accepts 4111 1111 1111 1111 and rejects 4111 1111 1111 1112;
\* replacing the final digit of an accepted string of at least 13 digits by
\* any other digit gives a rejected string; a string of fewer than 13
\* digits is rejected.
C8_Luhn ==
    called = {"luhn"} =>
        /\ num = CardExample => luhnRes
        /\ num = CardExampleInc => ~luhnRes
        /\ Len(StripNonDigits(num)) < 13 => ~luhnRes
        /\ (luhnRes /\ Len(StripNonDigits(num)) >= 13) =>
               \A k \in 1..10 :
                   DigitChars[k] # num[FinalDigitPos(num)] =>
                       ~luhn_check(ReplaceFinalDigit(num, DigitChars[k]))

C8_Witness ==
    /\ called = {"luhn"} /\ luhnRes /\ num = CardExample
    /\ ~luhn_check(ReplaceFinalDigit(num, "2"))

\* C9: the validator of the corporate-registration rule rejects a
\* 13-digit match of PAT_CRN exactly when its digits 3-4 are a month in
\* 1..12 and its digits 5-6 a day in 1..31; it rejects 900101-1234567 and
\* does not reject 999999-1234567.
C9_CrnExcludesDateShaped ==
    (called = {"crn"} /\ IsCrnShape(num)) =>
        LET n  == StripNonDigits(num)
            mm == 10 * DigitVal(n[3]) + DigitVal(n[4])
            dd == 10 * DigitVal(n[5]) + DigitVal(n[6])
        IN  /\ ~crnRes <=> (mm \in 1..12 /\ dd \in 1..31)
            /\ num = CrnDateShaped => ~crnRes
            /\ num = CrnNotDate => crnRes

C9_Witness ==
    /\ called = {"crn"} /\ IsCrnShape(num) /\ ~crnRes /\ num # CrnDateShaped

----------------------------------------------------------------------------
(* Properties of replace_text                                              *)

\* sub occurs in s
Contains(s, sub) ==
    \E k \in 0..(Len(s) - Len(sub)) : SubSeq(s, k + 1, k + Len(sub)) = sub

TelToken          == <<"T", "E", "L", "[", "*", "*", "*", "-", "*", "*", "*", "*", "-", "*", "*", "7", "8", "]">>
EmailTokenClaimed == <<"E", "M", "A", "I", "L", "[", "a", "*", "*", "*", "@", "b", ".", "c", "o", "m", "]">>
EmailTokenMasked  == <<"E", "M", "A", "I", "L", "[", "*", "@", "b", ".", "c", "o", "m", "]">>

EndToEndCall ==
    rpc = "done" /\ text = EndToEndText /\ enabled = <<"mobile", "email">>

\* C4 as stated: the redacted end-to-end example contains the tokens
\* TEL[***-****-**78] and EMAIL[a***@b.com].
C4_EndToEnd ==
    EndToEndCall => (Contains(out, TelToken) /\ Contains(out, EmailTokenClaimed))

\* C4 amended: the redacted end-to-end example contains the tokens
\* TEL[***-****-**78] and EMAIL[*@b.com], the one-character local part
\* being masked in full.
C4_Amended ==
    EndToEndCall =>
        /\ Contains(out, TelToken)
        /\ Contains(out, EmailTokenMasked)
        /\ ~Contains(out, EmailTokenClaimed)

C4_Witness == EndToEndCall /\ out # text /\ Contains(out, EmailTokenMasked)

\* the account pass ran over the text as given: no pattern of an enabled
\* rule matches in it
AcctPassOnText ==
    rpc = "done" /\ useAcct /\ RuleCands(text, enabled, 1) = <<>>

\* the keyword anchors of the text
Anchors(t) == FindIter("KEYWORD_ACCT", t, 0, Len(t))

\* C6: for a loosely-numeric run [s, e) of the text that follows a keyword
\* anchor ending at ke, the account pass replaces the whole run when
\* e = ke + window, and replaces no part of it when e = ke + window + 1.
C6_WindowBoundary ==
    AcctPassOnText =>
        \A a \in 1..Len(Anchors(text)) :
            LET ke == Anchors(text)[a][2]
            IN  \A s \in ke..(Len(text) - 1) :
                    LET e == AcctNumEnd(text, s, Len(text))
                    IN  /\ e = ke + window => <<s, e>> \in masked
                        /\ (e # -1 /\ e = ke + window + 1) =>
                               \A m \in masked : ~(m[1] < e /\ s < m[2])

\* C7: with no rule pattern matching, every region find_spans reports as a
\* keyword-proximity account span lies in text the account pass of
\* replace_text replaced by ACCT tokens.
C7_AcctPassCoversFindSpans ==
    AcctPassOnText =>
        LET fs == find_spans(text, enabled, TRUE, window)
        IN  \A k \in 1..Len(fs) :
                fs[k].rname = AcctLabel =>
                    \A p \in fs[k].start..(fs[k].end - 1) :
                        \E m \in masked : m[1] <= p /\ p < m[2]

----------------------------------------------------------------------------
(* Termination of the account pass                                         *)

\* C11: for every text and every window >= 0 (0 included) the while loop of
\* the account pass terminates: every step taken inside the loop either
\* leaves the loop or moves the scan index i to a strictly larger value that
\* is at most the length of the scanned text, and the loop is eventually left.
C11_AcctLoopTerminates ==
    /\ [][rpc = "acct" =>
              \/ rpc' = "done"
              \/ (i' > i /\ i' <= Len(out) /\ out' = out)]_vars
    /\ (rpc = "acct") ~> (rpc = "done")

\* with window 0 an iteration has found an anchor, advanced i past it and
\* the loop goes on
C11_Witness ==
    /\ rpc = "acct"
    /\ window = 0
    /\ res # <<>>
    /\ i > 0
    /\ i < Len(out)

============================================================================
